---- MODULE Spec2Model ----
(***************************************************************************)
(* Model of @art-share/crypto: scrypt parameter validation, the preset     *)
(* table, hex encoding and the hashing entry points of src/core.ts.        *)
(*                                                                         *)
(* Numbers.  JavaScript numbers are doubles; every integer the program     *)
(* handles here is exact.  The cost factor N may exceed the range of the   *)
(* model checker's integers, so N is kept as a pair <<hi, lo>> that stands *)
(* for hi * 2^16 + lo with 0 <= lo < 2^16 (hi may be negative).            *)
(*                                                                         *)
(* Strings are sequences of one-character strings.                         *)
(***************************************************************************)
EXTENDS Integers, Sequences, FiniteSets, TLC

Limb == 2^16

BigOf(n) == <<n \div Limb, n % Limb>>

BigNorm(hi, lo) == <<hi + (lo \div Limb), lo % Limb>>

BigLeqZero(a) == a[1] < 0 \/ (a[1] = 0 /\ a[2] = 0)

BigLt(a, b) == a[1] < b[1] \/ (a[1] = b[1] /\ a[2] < b[2])

BigGt(a, b) == BigLt(b, a)

\* a - 1
BigPred(a) == IF a[2] > 0 THEN <<a[1], a[2] - 1>> ELSE <<a[1] - 1, Limb - 1>>

\* a * k for a small non-negative a and k
BigMul(a, k) == BigNorm(a[1] * k, a[2] * k)

RECURSIVE BitAnd16(_, _, _)
\* bitwise AND of two values in 0 .. 2^16-1, bit by bit
BitAnd16(x, y, bits) ==
    IF bits = 0 THEN 0
    ELSE (IF x % 2 = 1 /\ y % 2 = 1 THEN 1 ELSE 0)
         + 2 * BitAnd16(x \div 2, y \div 2, bits - 1)

\* a & b: both operands go through ToInt32 (the low 32 bits), and the result
\* is zero exactly when both 16-bit halves of the AND are zero
Int32AndIsZero(a, b) ==
    /\ BitAnd16(a[1] % Limb, b[1] % Limb, 16) = 0
    /\ BitAnd16(a[2], b[2], 16) = 0

(***************************************************************************)
(* constants.ts                                                            *)
(***************************************************************************)
SecurityLevel == {"development", "standard", "high", "paranoid"}

SCRYPT_PRESETS ==
    [development |-> [N |-> BigOf(2^14), r |-> 8, p |-> 1, dkLen |-> 32],
     standard    |-> [N |-> BigOf(2^16), r |-> 8, p |-> 1, dkLen |-> 32],
     high        |-> [N |-> BigOf(2^18), r |-> 8, p |-> 1, dkLen |-> 32],
     paranoid    |-> [N |-> BigOf(2^20), r |-> 8, p |-> 1, dkLen |-> 32]]

DEFAULT_SECURITY_LEVEL == "standard"

SALT_LENGTH == 32

MIN_N == BigOf(2^10)
MAX_N == BigOf(2^24)
MIN_R == 1
MAX_R == 64
MIN_P == 1
MAX_P == 64
MIN_DKLEN == 16
MAX_DKLEN == 128

(***************************************************************************)
(* utils: validateScryptParams.  The result is "ok" or the message of the  *)
(* Error that is thrown (without the interpolated numbers).                *)
(***************************************************************************)
maxMemory == BigOf(1024 * 1024 * 1024)

memoryRequired(params) == BigMul(params.N, 128 * params.r)

validateScryptParams_NoMemoryCheck(params) ==
    IF BigLeqZero(params.N) \/ ~Int32AndIsZero(params.N, BigPred(params.N))
    THEN "N must be a power of 2"
    ELSE IF BigLt(params.N, MIN_N) \/ BigGt(params.N, MAX_N)
    THEN "N must be between"
    ELSE IF params.r < MIN_R \/ params.r > MAX_R
    THEN "r must be between"
    ELSE IF params.p < MIN_P \/ params.p > MAX_P
    THEN "p must be between"
    ELSE IF params.dkLen < MIN_DKLEN \/ params.dkLen > MAX_DKLEN
    THEN "dkLen must be between"
    ELSE "ok"

validateScryptParams_MemoryDouble(params) ==
    IF BigLeqZero(params.N) \/ ~Int32AndIsZero(params.N, BigPred(params.N))
    THEN "N must be a power of 2"
    ELSE IF BigLt(params.N, MIN_N) \/ BigGt(params.N, MAX_N)
    THEN "N must be between"
    ELSE IF params.r < MIN_R \/ params.r > MAX_R
    THEN "r must be between"
    ELSE IF params.p < MIN_P \/ params.p > MAX_P
    THEN "p must be between"
    ELSE IF params.dkLen < MIN_DKLEN \/ params.dkLen > MAX_DKLEN
    THEN "dkLen must be between"
    ELSE IF BigGt(memoryRequired(params), BigMul(maxMemory, 2))
    THEN "Memory requirement exceeds limit"
    ELSE "ok"

validateScryptParams_MemoryStrict(params) ==
    IF BigLeqZero(params.N) \/ ~Int32AndIsZero(params.N, BigPred(params.N))
    THEN "N must be a power of 2"
    ELSE IF BigLt(params.N, MIN_N) \/ BigGt(params.N, MAX_N)
    THEN "N must be between"
    ELSE IF params.r < MIN_R \/ params.r > MAX_R
    THEN "r must be between"
    ELSE IF params.p < MIN_P \/ params.p > MAX_P
    THEN "p must be between"
    ELSE IF params.dkLen < MIN_DKLEN \/ params.dkLen > MAX_DKLEN
    THEN "dkLen must be between"
    ELSE IF ~BigLt(memoryRequired(params), maxMemory)
    THEN "Memory requirement exceeds limit"
    ELSE "ok"

validateScryptParams(params) ==
    IF BigLeqZero(params.N) \/ ~Int32AndIsZero(params.N, BigPred(params.N))
    THEN "N must be a power of 2"
    ELSE IF BigLt(params.N, MIN_N) \/ BigGt(params.N, MAX_N)
    THEN "N must be between"
    ELSE IF params.r < MIN_R \/ params.r > MAX_R
    THEN "r must be between"
    ELSE IF params.p < MIN_P \/ params.p > MAX_P
    THEN "p must be between"
    ELSE IF params.dkLen < MIN_DKLEN \/ params.dkLen > MAX_DKLEN
    THEN "dkLen must be between"
    ELSE IF BigGt(memoryRequired(params), maxMemory)
    THEN "Memory requirement exceeds limit"
    ELSE "ok"

ValidationErrors ==
    {"N must be a power of 2", "N must be between", "r must be between",
     "p must be between", "dkLen must be between",
     "Memory requirement exceeds limit"}

(***************************************************************************)
(* Characters and hex digits                                               *)
(***************************************************************************)
HexDigits ==
    <<"0", "1", "2", "3", "4", "5", "6", "7", "8", "9",
      "a", "b", "c", "d", "e", "f">>

UpperHexDigits == <<"A", "B", "C", "D", "E", "F">>

IsHexDigit(c) ==
    \/ \E i \in 1..Len(HexDigits) : HexDigits[i] = c
    \/ \E i \in 1..Len(UpperHexDigits) : UpperHexDigits[i] = c

\* the characters that occur in the model's strings
Chars ==
    {HexDigits[i] : i \in 1..Len(HexDigits)}
    \cup {UpperHexDigits[i] : i \in 1..Len(UpperHexDigits)}
    \cup {"g", "p", "q", "x", "X", "-", "+", " "}

\* value of a radix-16 digit; upper and lower case digits are the same value
HexValueOf ==
    [c \in {d \in Chars : IsHexDigit(d)} |->
        IF \E i \in 1..Len(HexDigits) : HexDigits[i] = c
        THEN (CHOOSE i \in 1..Len(HexDigits) : HexDigits[i] = c) - 1
        ELSE (CHOOSE i \in 1..Len(UpperHexDigits) : UpperHexDigits[i] = c) + 9]

HexValue(c) == HexValueOf[c]

\* UTF-8 code of each character
CharCodeOf ==
    [c \in Chars |->
        CASE c \in {"0", "1", "2", "3", "4", "5", "6", "7", "8", "9"} -> 48 + HexValue(c)
          [] c \in {"a", "b", "c", "d", "e", "f"} -> 87 + HexValue(c)
          [] c \in {"A", "B", "C", "D", "E", "F"} -> 55 + HexValue(c)
          [] c = "g" -> 103
          [] c = "p" -> 112
          [] c = "q" -> 113
          [] c = "x" -> 120
          [] c = "X" -> 88
          [] c = "-" -> 45
          [] c = "+" -> 43
          [] c = " " -> 32]

CharCode(c) == CharCodeOf[c]

(***************************************************************************)
(* parseInt(string, 16) as ECMAScript defines it: leading white space is   *)
(* skipped, one sign is read, a 0x prefix is dropped, and the longest      *)
(* prefix of hex digits is the value; with no digit the result is NaN.     *)
(***************************************************************************)
RECURSIVE TrimStart(_)
TrimStart(s) ==
    IF s # <<>> /\ Head(s) = " " THEN TrimStart(Tail(s)) ELSE s

RECURSIVE DigitPrefix(_)
DigitPrefix(s) ==
    IF s # <<>> /\ Head(s) \in DOMAIN HexValueOf
    THEN <<Head(s)>> \o DigitPrefix(Tail(s))
    ELSE <<>>

RECURSIVE DigitsValue(_)
DigitsValue(d) ==
    IF d = <<>> THEN 0
    ELSE 16 * DigitsValue(SubSeq(d, 1, Len(d) - 1)) + HexValue(d[Len(d)])

parseInt16(s) ==
    LET t == TrimStart(s)
        neg == t # <<>> /\ Head(t) = "-"
        u == IF t # <<>> /\ Head(t) \in {"+", "-"} THEN Tail(t) ELSE t
        v == IF Len(u) >= 2 /\ u[1] = "0" /\ u[2] \in {"x", "X"}
             THEN SubSeq(u, 3, Len(u)) ELSE u
        d == DigitPrefix(v)
    IN  IF d = <<>> THEN [nan |-> TRUE, value |-> 0]
        ELSE [nan |-> FALSE,
              value |-> IF neg THEN 0 - DigitsValue(d) ELSE DigitsValue(d)]

\* storing a number into a Uint8Array element: NaN becomes 0, every other
\* value is reduced modulo 2^8
ToUint8(x) == IF x.nan THEN 0 ELSE x.value % 256

(***************************************************************************)
(* utils: bytesToHex, hexToBytes                                           *)
(***************************************************************************)
\* b.toString(16)
ToString16(b) ==
    IF b < 16 THEN <<HexDigits[b + 1]>>
    ELSE <<HexDigits[(b \div 16) + 1], HexDigits[(b % 16) + 1]>>

\* s.padStart(2, '0')
PadStart2(s) == IF Len(s) < 2 THEN <<"0">> \o s ELSE s

RECURSIVE Join(_)
\* parts.join(''), by halves
Join(parts) ==
    IF parts = <<>> THEN <<>>
    ELSE IF Len(parts) = 1 THEN parts[1]
    ELSE LET h == Len(parts) \div 2
         IN  Join(SubSeq(parts, 1, h)) \o Join(SubSeq(parts, h + 1, Len(parts)))

bytesToHex_NoPad(bytes) ==
    Join([i \in 1..Len(bytes) |-> ToString16(bytes[i])])

bytesToHex(bytes) ==
    Join([i \in 1..Len(bytes) |-> PadStart2(ToString16(bytes[i]))])

OddLengthError == "Invalid hex string: odd length"

hexToBytes_FirstDigitOnly(hex) ==
    IF Len(hex) % 2 # 0
    THEN [ok |-> FALSE, bytes |-> <<>>]
    ELSE [ok |-> TRUE,
          bytes |-> [k \in 1..(Len(hex) \div 2) |->
                        ToUint8(parseInt16(SubSeq(hex, 2 * k - 1, 2 * k - 1)))]]

\* ok = FALSE stands for the throw of OddLengthError
hexToBytes(hex) ==
    IF Len(hex) % 2 # 0
    THEN [ok |-> FALSE, bytes |-> <<>>]
    ELSE [ok |-> TRUE,
          bytes |-> [k \in 1..(Len(hex) \div 2) |->
                        ToUint8(parseInt16(SubSeq(hex, 2 * k - 1, 2 * k)))]]

(***************************************************************************)
(* The random source.  randomBytes(n) returns one of these byte sequences. *)
(***************************************************************************)
RandomByteValues == {15, 171}

randomBytes(n) == {[i \in 1..n |-> b] : b \in RandomByteValues}

\* the values generateSalt() can return
generateSalt == {bytesToHex(rb) : rb \in randomBytes(SALT_LENGTH)}

(***************************************************************************)
(* The derivation primitive of @noble/hashes.  It is outside this          *)
(* repository; the program relies on it being a deterministic function of  *)
(* (password, salt bytes, N, r, p, dkLen).  It is modelled as an injective *)
(* encoding of its arguments, so that two hashes are equal exactly when    *)
(* the primitive was given equal arguments.                                *)
(***************************************************************************)
U16(n) == <<(n \div 256) % 256, n % 256>>

scrypt(password, salt, params) ==
    U16(Len(password))
    \o [i \in 1..Len(password) |-> CharCode(password[i])]
    \o U16(Len(salt))
    \o salt
    \o U16(params.N[1] % Limb) \o U16(params.N[2])
    \o <<params.r % 256, params.p % 256, params.dkLen % 256>>

scryptAsync(password, salt, params) == scrypt(password, salt, params)

(***************************************************************************)
(* Bounds and inputs of the model                                          *)
(***************************************************************************)
\* how many times a hash may be fed back as the password of a later call
MaxDepth == 1

\* The caller programs considered.  "calls": independent hashing and
\* verification calls on every kind of salt argument; "protocol": the
\* two-phase flow, a client hash fed to the server pass; "objects": calls
\* interleaved with tasks that read presets and assign to the parameter
\* objects the caller holds.
Scenarios == {"calls", "protocol", "objects"}

Passwords == {<<"p">>, <<"q">>}

\* an optional salt argument: given = FALSE is the omitted argument
NoSalt == [given |-> FALSE, s |-> <<>>]

Given(str) == [given |-> TRUE, s |-> str]

SaltArgs ==
    {NoSalt, Given(<<>>), Given(<<"a", "b">>), Given(<<"A", "B">>),
     Given(<<"g", "g">>), Given(<<"a", "b", "c">>)}

\* parameter objects a caller writes as literals: a valid and an invalid one
ValidLiteral == [N |-> BigOf(2^10), r |-> 1, p |-> 1, dkLen |-> 16]

InvalidLiteral == [N |-> BigOf(1000), r |-> 8, p |-> 1, dkLen |-> 32]

\* the value a caller task assigns to the N field of an object it holds
MutatedN == BigOf(2^12)

\* parameter objects: the four entries of SCRYPT_PRESETS, an object the
\* caller wrote as a literal (c1) and the latest copy that getScryptParams
\* returned (g1)
ObjIds == SecurityLevel \cup {"c1", "g1"}

\* DEFAULT_SCRYPT_PARAMS is the object SCRYPT_PRESETS[DEFAULT_SECURITY_LEVEL]
DEFAULT_SCRYPT_PARAMS == DEFAULT_SECURITY_LEVEL

\* the values validateScryptParams is exercised on
TestN ==
    {BigOf(0 - 1024), BigOf(0 - 1), BigOf(0), BigOf(1), BigOf(512), BigOf(1000),
     BigOf(2^10), BigOf(2^10 + 1), BigOf(2^14), BigOf(2^16), BigOf(2^17),
     BigOf(2^18), BigOf(2^20), BigOf(2^23), BigOf(2^24), BigOf(2^24 + 2^10), BigOf(2^25),
     <<2^15, 0>>, <<2^15, 2^10>>, <<2^16, 0>>, <<2^16, 2^10>>, <<2^16 + 1, 0>>,
     <<2^17 + 2^4, 0>>}

TestR == {0, 1, 8, 16, 64, 65}

TestP == {0, 1, 64, 65}

TestDkLen == {15, 16, 32, 128, 129}

ParamSpace == [N : TestN, r : TestR, p : TestP, dkLen : TestDkLen]

(***************************************************************************)
(* State                                                                   *)
(***************************************************************************)
VARIABLES
    scenario, \* the caller program
    heap,     \* the parameter objects: ObjIds -> ScryptParams value
    held,     \* the parameter objects the caller holds a reference to
    cur,      \* the call in progress or just finished
    last,     \* the hash result the caller kept
    vp,       \* the argument a utility function is applied to
    vres,     \* its result
    issued,   \* the salts and form tokens issued so far
    out       \* what the latest issuing call returned

vars == <<scenario, heap, held, cur, last, vp, vres, issued, out>>

Truthy(salt) == salt.given /\ salt.s # <<>>

NoCall ==
    [op |-> "none", pc |-> "none", password |-> <<>>, depth |-> 0,
     salt |-> NoSalt, pref |-> DEFAULT_SCRYPT_PARAMS, expected |-> <<>>,
     used |-> SCRYPT_PRESETS[DEFAULT_SECURITY_LEVEL],
     error |-> "", saltHex |-> <<>>, saltBytes |-> <<>>,
     generated |-> FALSE, decoded |-> FALSE, started |-> FALSE,
     fails |-> FALSE, outcome |-> "pending", hash |-> <<>>,
     hasResult |-> FALSE, rsalt |-> <<>>, rparams |-> DEFAULT_SCRYPT_PARAMS,
     bool |-> FALSE, cleared |-> 0, comparator |-> "none"]

NoLast ==
    [valid |-> FALSE, op |-> "none", password |-> <<>>, depth |-> 0,
     salt |-> NoSalt, used |-> SCRYPT_PRESETS[DEFAULT_SECURITY_LEVEL],
     hash |-> <<>>, rsalt |-> <<>>]

\* no issuing call has returned yet
NoOut ==
    [op |-> "none", level |-> "undefined", algorithm |-> "",
     params |-> SCRYPT_PRESETS[DEFAULT_SECURITY_LEVEL], salt |-> <<>>,
     formToken |-> <<>>, reissued |-> FALSE]

(***************************************************************************)
(* core: the hashing entry points                                          *)
(***************************************************************************)
hashStart_ValidateLast(salt, params, rnd) ==
    LET saltHex == IF Truthy(salt) THEN salt.s ELSE rnd
        dec == hexToBytes(saltHex)
        v == validateScryptParams(params)
    IN  IF ~dec.ok
        THEN [error |-> OddLengthError, saltHex |-> saltHex,
              saltBytes |-> <<>>, generated |-> ~Truthy(salt),
              decoded |-> TRUE, started |-> FALSE]
        ELSE IF v # "ok"
        THEN [error |-> v, saltHex |-> saltHex, saltBytes |-> dec.bytes,
              generated |-> ~Truthy(salt), decoded |-> TRUE,
              started |-> FALSE]
        ELSE [error |-> "", saltHex |-> saltHex, saltBytes |-> dec.bytes,
              generated |-> ~Truthy(salt), decoded |-> TRUE,
              started |-> TRUE]

hashStart_IgnoreSalt(salt, params, rnd) ==
    LET v == validateScryptParams(params) IN
    IF v # "ok"
    THEN [error |-> v, saltHex |-> <<>>, saltBytes |-> <<>>,
          generated |-> FALSE, decoded |-> FALSE, started |-> FALSE]
    ELSE [error |-> "", saltHex |-> rnd, saltBytes |-> hexToBytes(rnd).bytes,
          generated |-> TRUE, decoded |-> TRUE, started |-> TRUE]

\* hashPassword / hashPasswordSync up to the invocation of the primitive:
\* validateScryptParams, salt || generateSalt(), hexToBytes.  rnd is the
\* value generateSalt() returns when it is called.  error is the message
\* of the Error thrown, "" when none is; started tells that the primitive
\* was invoked.
hashStart(salt, params, rnd) ==
    LET v == validateScryptParams(params) IN
    IF v # "ok"
    THEN [error |-> v, saltHex |-> <<>>, saltBytes |-> <<>>,
          generated |-> FALSE, decoded |-> FALSE, started |-> FALSE]
    ELSE LET saltHex == IF Truthy(salt) THEN salt.s ELSE rnd
             dec == hexToBytes(saltHex)
         IN  IF ~dec.ok
             THEN [error |-> OddLengthError, saltHex |-> saltHex,
                   saltBytes |-> <<>>, generated |-> ~Truthy(salt),
                   decoded |-> TRUE, started |-> FALSE]
             ELSE [error |-> "", saltHex |-> saltHex,
                   saltBytes |-> dec.bytes, generated |-> ~Truthy(salt),
                   decoded |-> TRUE, started |-> TRUE]

\* the record of a call that has run hashStart; the primitive reads the
\* field values of the params object when it is invoked (used)
Begin(op, password, depth, salt, pref, expected, rnd, fails) ==
    LET st == hashStart(salt, heap[pref], rnd) IN
    [NoCall EXCEPT
        !.op = op, !.pc = "await", !.password = password, !.depth = depth,
        !.salt = salt, !.pref = pref, !.expected = expected,
        !.used = heap[pref], !.error = st.error, !.saltHex = st.saltHex,
        !.saltBytes = st.saltBytes, !.generated = st.generated,
        !.decoded = st.decoded, !.started = st.started,
        !.fails = fails /\ st.started]

\* the try / finally block of hashPassword and hashPasswordSync: the
\* primitive's bytes (key) are hex-encoded and the HashResult is built with
\* the salt string and the params object of the call; the finally block
\* runs clearString.  The errors of hashStart are thrown before the try
\* block is entered.
hashFinish(c, key) ==
    IF c.error # ""
    THEN [c EXCEPT !.pc = "done", !.outcome = c.error]
    ELSE IF c.fails
    THEN [c EXCEPT !.pc = "done", !.outcome = "DerivationFailure",
                   !.cleared = c.cleared + 1]
    ELSE [c EXCEPT !.pc = "done", !.outcome = "ok",
                   !.hash = bytesToHex(key), !.hasResult = TRUE,
                   !.rsalt = c.saltHex, !.rparams = c.pref,
                   !.cleared = c.cleared + 1]

hashPasswordSync(c) == hashFinish(c, scrypt(c.password, c.saltBytes, c.used))

hashPassword(c) == hashFinish(c, scryptAsync(c.password, c.saltBytes, c.used))

verifyPassword_AlwaysTrue(c) ==
    LET h == hashPassword(c) IN
    IF h.outcome = "ok"
    THEN [h EXCEPT !.bool = TRUE, !.hasResult = FALSE,
                   !.cleared = h.cleared + 1]
    ELSE [h EXCEPT !.cleared = h.cleared + 1]

\* result.hash === expectedHash inside try, clearString in finally;
\* comparator names the comparison that decided the result
verifyPassword(c) ==
    LET h == hashPassword(c) IN
    IF h.outcome = "ok"
    THEN [h EXCEPT !.bool = (h.hash = c.expected), !.comparator = "===",
                   !.hasResult = FALSE, !.cleared = h.cleared + 1]
    ELSE [h EXCEPT !.cleared = h.cleared + 1]

\* return result.hash
clientHashPassword(c) == [hashPassword(c) EXCEPT !.hasResult = FALSE]

serverHashPassword(c) == [hashPassword(c) EXCEPT !.hasResult = FALSE]

\* return { ...SCRYPT_PRESETS[level] }: the field values of the table entry
getScryptParams(level) == heap[level]

CopyOf_Alias(level) == level

\* the object that { ...SCRYPT_PRESETS[level] } evaluates to: a new object
\* (g1 stands for it), never the table entry
CopyOf(level) == "g1"

(***************************************************************************)
(* The arguments each caller program passes                                *)
(***************************************************************************)
AllOps ==
    {"hashPasswordSync", "hashPassword", "verifyPassword",
     "clientHashPassword", "serverHashPassword"}

OpsOf ==
    [calls |-> AllOps,
     protocol |-> {"clientHashPassword", "serverHashPassword", "hashPassword"},
     objects |-> AllOps]

\* the passwords a call can be given, each with the number of hashes it
\* went through; in the protocol the kept hash can be the next password
PasswordChoices ==
    CASE scenario = "calls" -> {<<pw, 0>> : pw \in Passwords}
      [] scenario = "objects" -> {<< <<"p">>, 0 >>}
      [] scenario = "protocol" ->
            {<< <<"p">>, 0 >>}
            \cup (IF last.valid THEN {<<last.password, last.depth>>} ELSE {})
            \cup (IF last.valid /\ last.depth < MaxDepth
                  THEN {<<last.hash, last.depth + 1>>} ELSE {})

\* the salt strings a call can be given
SaltStrings ==
    CASE scenario = "calls" ->
            {a \in SaltArgs : a.given}
            \cup (IF last.valid THEN {Given(last.rsalt)} ELSE {})
      [] scenario = "objects" -> {Given(<<"a", "b">>)}
      [] scenario = "protocol" ->
            {Given(<<>>), Given(<<"a", "b">>), Given(<<"A", "B">>)}

\* the salt arguments of the operations whose salt is optional
OptionalSalts ==
    SaltStrings \cup (IF scenario = "calls" THEN {NoSalt} ELSE {})

\* the parameter objects a call can be given explicitly
ParamRefs == held

\* whether the platform makes the primitive fail
FailChoices == IF scenario = "calls" THEN BOOLEAN ELSE {FALSE}

\* the values generateSalt() can return to a call with this salt argument
RandomChoices(salt) == IF Truthy(salt) THEN {<<>>} ELSE generateSalt

CanKeep(c) ==
    CASE scenario = "calls" -> c.op \in {"hashPassword", "hashPasswordSync"}
      [] scenario = "protocol" -> TRUE
      [] scenario = "objects" -> FALSE

(***************************************************************************)
(* Initial state and actions                                               *)
(***************************************************************************)
InitProgram ==
    /\ scenario \in Scenarios
    /\ \E lit \in IF scenario = "calls" THEN {ValidLiteral, InvalidLiteral}
                  ELSE {ValidLiteral} :
          heap = [o \in ObjIds |->
                    IF o = "c1" THEN lit
                    ELSE IF o = "g1" THEN SCRYPT_PRESETS[DEFAULT_SECURITY_LEVEL]
                    ELSE SCRYPT_PRESETS[o]]
    /\ held = {"c1"}
    /\ cur = NoCall
    /\ last = NoLast
    /\ issued = {}
    /\ out = NoOut

Init ==
    /\ InitProgram
    /\ vp = SCRYPT_PRESETS[DEFAULT_SECURITY_LEVEL]
    /\ vres = "unchecked"

Idle(op) == cur.pc = "none" /\ op \in OpsOf[scenario]

HasHash(c) == c.pc = "done" /\ c.outcome = "ok" /\ c.op # "verifyPassword"

Returned(c) == IF c.hasResult THEN held \cup {c.rparams} ELSE held

CallHashPasswordSync ==
    /\ Idle("hashPasswordSync")
    /\ \E pc \in PasswordChoices, salt \in OptionalSalts,
          pref \in ParamRefs \cup {DEFAULT_SCRYPT_PARAMS},
          fails \in FailChoices :
          \E rnd \in RandomChoices(salt) :
             LET c == hashPasswordSync(
                        Begin("hashPasswordSync", pc[1], pc[2], salt, pref,
                              <<>>, rnd, fails))
             IN  /\ cur' = c
                 /\ held' = Returned(c)
    /\ UNCHANGED <<scenario, heap, last, vp, vres, issued, out>>

CallHashPassword ==
    /\ Idle("hashPassword")
    /\ \E pc \in PasswordChoices, salt \in OptionalSalts,
          pref \in ParamRefs \cup {DEFAULT_SCRYPT_PARAMS},
          fails \in FailChoices :
          \E rnd \in RandomChoices(salt) :
             cur' = Begin("hashPassword", pc[1], pc[2], salt, pref, <<>>,
                          rnd, fails)
    /\ UNCHANGED <<scenario, heap, held, last, vp, vres, issued, out>>

CallVerifyPassword ==
    /\ Idle("verifyPassword")
    /\ \E pc \in PasswordChoices, salt \in SaltStrings, pref \in ParamRefs,
          fails \in FailChoices :
          \E rnd \in RandomChoices(salt) :
             cur' = Begin("verifyPassword", pc[1], pc[2], salt, pref,
                          last.hash, rnd, fails)
    /\ UNCHANGED <<scenario, heap, held, last, vp, vres, issued, out>>

CallClientHashPassword ==
    /\ Idle("clientHashPassword")
    /\ \E pc \in PasswordChoices, salt \in SaltStrings, pref \in ParamRefs,
          fails \in FailChoices :
          \E rnd \in RandomChoices(salt) :
             cur' = Begin("clientHashPassword", pc[1], pc[2], salt, pref,
                          <<>>, rnd, fails)
    /\ UNCHANGED <<scenario, heap, held, last, vp, vres, issued, out>>

CallServerHashPassword ==
    /\ Idle("serverHashPassword")
    /\ \E pc \in PasswordChoices, salt \in SaltStrings,
          pref \in ParamRefs \cup {DEFAULT_SCRYPT_PARAMS},
          fails \in FailChoices :
          \E rnd \in RandomChoices(salt) :
             cur' = Begin("serverHashPassword", pc[1], pc[2], salt, pref,
                          <<>>, rnd, fails)
    /\ UNCHANGED <<scenario, heap, held, last, vp, vres, issued, out>>

\* the promise of the asynchronous call in progress settles
Settle ==
    /\ cur.pc = "await"
    /\ LET c == CASE cur.op = "hashPassword" -> hashPassword(cur)
                  [] cur.op = "verifyPassword" -> verifyPassword(cur)
                  [] cur.op = "clientHashPassword" -> clientHashPassword(cur)
                  [] cur.op = "serverHashPassword" -> serverHashPassword(cur)
       IN  /\ cur' = c
           /\ held' = Returned(c)
    /\ UNCHANGED <<scenario, heap, last, vp, vres, issued, out>>

\* the caller keeps the hash, the salt and the arguments of the finished call
Keep ==
    /\ HasHash(cur)
    /\ CanKeep(cur)
    /\ last' = [valid |-> TRUE, op |-> cur.op, password |-> cur.password,
                depth |-> cur.depth, salt |-> cur.salt, used |-> cur.used,
                hash |-> cur.hash, rsalt |-> cur.saltHex]
    /\ cur' = NoCall
    /\ UNCHANGED <<scenario, heap, held, vp, vres, issued, out>>

\* the caller is done with the finished call
Drop ==
    /\ cur.pc = "done"
    /\ cur' = NoCall
    /\ UNCHANGED <<scenario, heap, held, last, vp, vres, issued, out>>

\* the caller takes a copy of a preset; the copy is a new object, which
\* replaces the previous copy once no call refers to that one any more
CallGetScryptParams ==
    /\ scenario = "objects"
    /\ cur.pc = "none" \/ cur.pref # "g1"
    /\ \E level \in SecurityLevel :
          /\ heap' = [heap EXCEPT ![CopyOf(level)] = getScryptParams(level)]
          /\ held' = held \cup {CopyOf(level)}
    /\ UNCHANGED <<scenario, cur, last, vp, vres, issued, out>>

\* a caller task assigns to the N field of an object it holds
CallerMutate ==
    /\ scenario = "objects"
    /\ \E o \in held : heap' = [heap EXCEPT ![o].N = MutatedN]
    /\ UNCHANGED <<scenario, held, cur, last, vp, vres, issued, out>>

Next ==
    \/ CallHashPasswordSync
    \/ CallHashPassword
    \/ CallVerifyPassword
    \/ CallClientHashPassword
    \/ CallServerHashPassword
    \/ Settle
    \/ Keep
    \/ Drop
    \/ CallGetScryptParams
    \/ CallerMutate

Spec == Init /\ [][Next]_vars

(***************************************************************************)
(* validateScryptParams as a function of its argument                      *)
(***************************************************************************)
InitParams ==
    /\ InitProgram
    /\ scenario = "calls"
    /\ heap["c1"] = ValidLiteral
    /\ vp \in ParamSpace
    /\ vres = "unchecked"

Validate ==
    /\ vres = "unchecked"
    /\ vres' = validateScryptParams(vp)
    /\ UNCHANGED <<scenario, heap, held, cur, last, vp, issued, out>>

NextParams == Validate

SpecParams == InitParams /\ [][NextParams]_vars

(***************************************************************************)
(* Issuing salts, form tokens and login parameters                         *)
(***************************************************************************)
\* the number of random bytes of a form token
TOKEN_LENGTH == 16

\* The byte sequences the random source returns to the issuing functions.
\* The two differ in their first two bytes only: 01 10 .. and 11 00 ..
RandomPrefixes == {<<1, 16>>, <<17, 0>>}

randomDraws(n) == {pre \o [i \in 1..(n - 2) |-> 171] : pre \in RandomPrefixes}

\* generateSalt() for each byte sequence rb that randomBytes(SALT_LENGTH)
\* can return here
generateSaltOf == [rb \in randomDraws(SALT_LENGTH) |-> bytesToHex(rb)]

\* generateFormToken() for each rb that randomBytes(16) can return
generateFormToken == [rb \in randomDraws(TOKEN_LENGTH) |-> bytesToHex(rb)]

\* createLoginParams(securityLevel = 'standard'), where salt is what
\* generateSalt() returned and formToken what generateFormToken() returned
createLoginParams(securityLevel, salt, formToken) ==
    [algorithm |-> "scrypt",
     params |-> getScryptParams(IF securityLevel = "undefined" THEN "standard"
                                ELSE securityLevel),
     salt |-> salt,
     formToken |-> formToken]

\* the value was issued before as a salt (kind "salt") or as a form token
Reissued(kind, value) == \E e \in issued : e.kind = kind /\ e.value = value

Issue(kind, draw, value) == [kind |-> kind, draw |-> draw, value |-> value]

CallCreateLoginParams ==
    /\ cur.pc \in {"none", "done"}
    /\ \E level \in SecurityLevel \cup {"undefined"},
          rs \in randomDraws(SALT_LENGTH), rt \in randomDraws(TOKEN_LENGTH) :
          LET b == createLoginParams(level, generateSaltOf[rs],
                                     generateFormToken[rt]) IN
          /\ out' = [op |-> "createLoginParams", level |-> level,
                     algorithm |-> b.algorithm, params |-> b.params,
                     salt |-> b.salt, formToken |-> b.formToken,
                     reissued |-> \/ Reissued("salt", b.salt)
                                  \/ Reissued("token", b.formToken)]
          /\ issued' = issued \cup {Issue("salt", rs, b.salt),
                                    Issue("token", rt, b.formToken)}
    /\ UNCHANGED <<scenario, heap, held, cur, last, vp, vres>>

CallGenerateSalt ==
    /\ cur.pc \in {"none", "done"}
    /\ \E rs \in randomDraws(SALT_LENGTH) :
          LET salt == generateSaltOf[rs] IN
          /\ out' = [NoOut EXCEPT !.op = "generateSalt", !.salt = salt,
                                  !.reissued = Reissued("salt", salt)]
          /\ issued' = issued \cup {Issue("salt", rs, salt)}
    /\ UNCHANGED <<scenario, heap, held, cur, last, vp, vres>>

CallGenerateFormToken ==
    /\ cur.pc \in {"none", "done"}
    /\ \E rt \in randomDraws(TOKEN_LENGTH) :
          LET token == generateFormToken[rt] IN
          /\ out' = [NoOut EXCEPT !.op = "generateFormToken",
                                  !.formToken = token,
                                  !.reissued = Reissued("token", token)]
          /\ issued' = issued \cup {Issue("token", rt, token)}
    /\ UNCHANGED <<scenario, heap, held, cur, last, vp, vres>>

\* a server that issues login parameters while it hashes with the default
\* parameters and assigns to the objects it holds
InitLogin ==
    /\ InitProgram
    /\ scenario = "objects"
    /\ vp = SCRYPT_PRESETS[DEFAULT_SECURITY_LEVEL]
    /\ vres = "unchecked"

NextLogin ==
    \/ CallCreateLoginParams
    \/ CallGenerateSalt
    \/ CallGenerateFormToken
    \/ CallHashPasswordSync
    \/ Drop
    \/ CallerMutate

SpecLogin == InitLogin /\ [][NextLogin]_vars

(***************************************************************************)
(* Reading presets and assigning to the fields of the objects held         *)
(***************************************************************************)
\* the values a caller assigns to the fields of a parameter object
AssignedValues ==
    [N |-> {MutatedN, BigOf(999)}, r |-> {16}, p |-> {2}, dkLen |-> {64}]

\* a caller task assigns to one field of an object it holds
CallerAssign ==
    /\ scenario = "objects"
    /\ \E o \in held, f \in DOMAIN AssignedValues :
          \E v \in AssignedValues[f] : heap' = [heap EXCEPT ![o][f] = v]
    /\ UNCHANGED <<scenario, held, cur, last, vp, vres, issued, out>>

NextPresets ==
    \/ CallGetScryptParams
    \/ CallerAssign

SpecPresets == InitLogin /\ [][NextPresets]_vars

(***************************************************************************)
(* The utility functions as functions of their arguments.  The program     *)
(* state plays no part in them: it stays as the module initialisation      *)
(* left it.                                                                *)
(***************************************************************************)
InitUtility ==
    /\ InitProgram
    /\ scenario = "calls"
    /\ heap["c1"] = ValidLiteral

\* the longest byte sequence that is encoded and decoded
MaxBytes == 2

SampleBytes == {0, 1, 10, 15, 16, 171, 255}

\* the byte sequences bytesToHex is applied to: every single byte, and
\* every sequence of sample bytes up to MaxBytes
ByteSeqs ==
    {<<b>> : b \in 0..255}
    \cup UNION {[1..n -> SampleBytes] : n \in 0..MaxBytes}

NoHex == [stage |-> "none", hex |-> <<>>, ok |-> FALSE, bytes |-> <<>>]

InitHex ==
    /\ InitUtility
    /\ vp \in ByteSeqs
    /\ vres = NoHex

\* hex = bytesToHex(bytes)
Encode ==
    /\ vres.stage = "none"
    /\ vres' = [vres EXCEPT !.stage = "encoded", !.hex = bytesToHex(vp)]
    /\ UNCHANGED <<scenario, heap, held, cur, last, vp, issued, out>>

\* hexToBytes(hex)
Decode ==
    /\ vres.stage = "encoded"
    /\ LET d == hexToBytes(vres.hex) IN
       vres' = [vres EXCEPT !.stage = "decoded", !.ok = d.ok,
                            !.bytes = d.bytes]
    /\ UNCHANGED <<scenario, heap, held, cur, last, vp, issued, out>>

NextHex ==
    \/ Encode
    \/ Decode

SpecHex == InitHex /\ [][NextHex]_vars

(***************************************************************************)
(* utils: timingSafeEqual                                                  *)
(***************************************************************************)
RECURSIVE BitXor16(_, _, _)
\* x ^ y for two values in 0 .. 2^16-1
BitXor16(x, y, bits) ==
    IF bits = 0 THEN 0
    ELSE (IF x % 2 # y % 2 THEN 1 ELSE 0)
         + 2 * BitXor16(x \div 2, y \div 2, bits - 1)

RECURSIVE BitOr16(_, _, _)
\* x | y for two values in 0 .. 2^16-1
BitOr16(x, y, bits) ==
    IF bits = 0 THEN 0
    ELSE (IF x % 2 = 1 \/ y % 2 = 1 THEN 1 ELSE 0)
         + 2 * BitOr16(x \div 2, y \div 2, bits - 1)

RECURSIVE CompareLoop_EarlyExit(_, _, _, _)
CompareLoop_EarlyExit(a, b, i, result) ==
    IF i > Len(a) THEN [result |-> result, steps |-> i - 1]
    ELSE IF a[i] # b[i] THEN [result |-> 1, steps |-> i]
    ELSE CompareLoop_EarlyExit(a, b, i + 1, result)

RECURSIVE CompareLoop(_, _, _, _)
\* for (let i = ..; i < a.length; i++) result |= a.charCodeAt(i) ^ b.charCodeAt(i)
\* from position i (counted from 1) on; steps is the number of iterations
\* the whole loop has run
CompareLoop(a, b, i, result) ==
    IF i > Len(a) THEN [result |-> result, steps |-> i - 1]
    ELSE CompareLoop(a, b, i + 1,
             BitOr16(result, BitXor16(CharCode(a[i]), CharCode(b[i]), 16), 16))

timingSafeEqual_EarlyExit(a, b) ==
    IF Len(a) # Len(b) THEN [value |-> FALSE, steps |-> 0]
    ELSE LET l == CompareLoop_EarlyExit(a, b, 1, 0)
         IN  [value |-> l.result = 0, steps |-> l.steps]

\* value is what the function returns, steps the iterations of its loop
timingSafeEqual(a, b) ==
    IF Len(a) # Len(b) THEN [value |-> FALSE, steps |-> 0]
    ELSE LET l == CompareLoop(a, b, 1, 0)
         IN  [value |-> l.result = 0, steps |-> l.steps]

\* the longest string that is compared
MaxStrLen == 3

CompareChars == {"a", "A", "b"}

CompareStrings == UNION {[1..n -> CompareChars] : n \in 0..MaxStrLen}

InitCompare ==
    /\ InitUtility
    /\ vp \in CompareStrings \X CompareStrings
    /\ vres = [done |-> FALSE, value |-> FALSE, steps |-> 0]

CallTimingSafeEqual ==
    /\ ~vres.done
    /\ LET t == timingSafeEqual(vp[1], vp[2]) IN
       vres' = [done |-> TRUE, value |-> t.value, steps |-> t.steps]
    /\ UNCHANGED <<scenario, heap, held, cur, last, vp, issued, out>>

NextCompare == CallTimingSafeEqual

SpecCompare == InitCompare /\ [][NextCompare]_vars

(***************************************************************************)
(* utils: estimateHashingTime.  For the integers considered every          *)
(* operation of baseTime * (N / baseN) * (r / 8) * p is exact in double    *)
(* arithmetic (divisions by powers of two, products below 2^53), so timeMs *)
(* is the rational number 25 * N * r * p / 2^16.  It is kept as its        *)
(* numerator over baseN, a pair <<hi, lo>> like N, whose value as a        *)
(* fraction is hi + lo / 2^16.                                             *)
(***************************************************************************)
baseTime == 200

baseN == 2^16

\* Math.round: the nearest integer, a half going up
MathRound(t) == t[1] + (IF 2 * t[2] >= Limb THEN 1 ELSE 0)

\* Math.floor
MathFloor(t) == t[1]

estimateHashingTime_Floor(params) ==
    MathFloor(BigMul(BigMul(BigMul(params.N, baseTime \div 8), params.r),
                     params.p))

estimateHashingTime_Modulo(params) ==
    MathRound(BigMul(BigMul(BigMul(params.N, baseTime), params.r % 8),
                     params.p))

estimateHashingTime_Ceil(params) ==
    LET t == BigMul(BigMul(BigMul(params.N, baseTime \div 8), params.r),
                    params.p)
    IN  t[1] + (IF t[2] > 0 THEN 1 ELSE 0)

estimateHashingTime(params) ==
    MathRound(BigMul(BigMul(BigMul(params.N, baseTime \div 8), params.r),
                     params.p))

\* the parameter sets the estimate is computed for
EstimateN ==
    {BigOf(1000), BigOf(2^10), BigOf(2^11), BigOf(2^12), BigOf(2^14),
     BigOf(2^15), BigOf(2^16), BigOf(2^18), BigOf(2^20), BigOf(2^24),
     BigOf(2^25)}

EstimateR == {1, 2, 3, 8, 16, 64}

EstimateP == {1, 2, 3, 64}

EstimateSpace == [N : EstimateN, r : EstimateR, p : EstimateP, dkLen : {32}]

\* x and y differ in at most one of N, r and p
DifferInOne(x, y) ==
    \/ x.r = y.r /\ x.p = y.p
    \/ x.N = y.N /\ x.p = y.p
    \/ x.N = y.N /\ x.r = y.r

NoEstimate == [done |-> FALSE, ms |-> 0]

\* two parameter sets that are estimated and compared
InitEstimate ==
    /\ InitUtility
    /\ vp \in {q \in [a : EstimateSpace, b : EstimateSpace] :
                  DifferInOne(q.a, q.b)}
    /\ vres = [a |-> NoEstimate, b |-> NoEstimate]

CallEstimateHashingTime ==
    /\ \E k \in {"a", "b"} :
          /\ ~vres[k].done
          /\ vres' = [vres EXCEPT ![k] = [done |-> TRUE,
                                          ms |-> estimateHashingTime(vp[k])]]
    /\ UNCHANGED <<scenario, heap, held, cur, last, vp, issued, out>>

NextEstimate == CallEstimateHashingTime

SpecEstimate == InitEstimate /\ [][NextEstimate]_vars

(***************************************************************************)
(* utils: detectCryptoCapabilities, and isSecureBrowserEnvironment of the  *)
(* browser entry point.  The host is what the global scope offers:         *)
(* whether process, process.versions.node, window, crypto and              *)
(* crypto.subtle are defined, and the value of isSecureContext on          *)
(* globalThis and on window.                                               *)
(***************************************************************************)
Tri == {"undefined", "false", "true"}

Hosts ==
    {h \in [process : BOOLEAN, node : BOOLEAN, window : BOOLEAN,
            crypto : BOOLEAN, subtle : BOOLEAN,
            globalSecure : Tri, windowSecure : Tri] :
        /\ h.node => h.process
        /\ h.subtle => h.crypto
        /\ ~h.window => h.windowSecure = "undefined"}

\* x || y: x when x is truthy, y otherwise
JsOr(x, y) == IF x = "true" THEN x ELSE y

\* c && x for a boolean c
JsAnd(c, x) == IF c THEN x ELSE "false"

detectCryptoCapabilities(host) ==
    [webCrypto |-> host.crypto /\ host.subtle,
     secureContext |->
        JsOr(JsOr(JsAnd(TRUE, host.globalSecure),
                  JsAnd(host.window, host.windowSecure)),
             "true") = "true",
     nodeEnvironment |-> host.process /\ host.node,
     browserEnvironment |-> host.window]

isSecureBrowserEnvironment(host) ==
    LET capabilities == detectCryptoCapabilities(host)
    IN  /\ capabilities.browserEnvironment
        /\ capabilities.secureContext
        /\ capabilities.webCrypto

NoCapabilities ==
    [stage |-> "none",
     caps |-> [webCrypto |-> FALSE, secureContext |-> FALSE,
               nodeEnvironment |-> FALSE, browserEnvironment |-> FALSE],
     secure |-> FALSE]

InitEnv ==
    /\ InitUtility
    /\ vp \in Hosts
    /\ vres = NoCapabilities

CallDetectCryptoCapabilities ==
    /\ vres.stage = "none"
    /\ vres' = [vres EXCEPT !.stage = "detected",
                            !.caps = detectCryptoCapabilities(vp)]
    /\ UNCHANGED <<scenario, heap, held, cur, last, vp, issued, out>>

CallIsSecureBrowserEnvironment ==
    /\ vres.stage = "detected"
    /\ vres' = [vres EXCEPT !.stage = "checked",
                            !.secure = isSecureBrowserEnvironment(vp)]
    /\ UNCHANGED <<scenario, heap, held, cur, last, vp, issued, out>>

NextEnv ==
    \/ CallDetectCryptoCapabilities
    \/ CallIsSecureBrowserEnvironment

SpecEnv == InitEnv /\ [][NextEnv]_vars

TypeOK ==
    /\ held \subseteq ObjIds
    /\ cur.pc \in {"none", "await", "done"}

(***************************************************************************)
(* Properties                                                              *)
(***************************************************************************)
WellFormedHex(str) ==
    /\ Len(str) % 2 = 0
    /\ \A i \in 1..Len(str) : IsHexDigit(str[i])

HashingOps == {"hashPassword", "hashPasswordSync"}

\* C1: in every hashing entry point the primitive is invoked only with
\* parameters that validateScryptParams accepted in that call; when the
\* parameters of a call fail validation, the call ends with the validation
\* error, and no salt was generated, no salt was decoded and the primitive
\* was not invoked.
C1_ValidationFirst ==
    cur.pc # "none" =>
        /\ cur.started => validateScryptParams(cur.used) = "ok"
        /\ validateScryptParams(cur.used) # "ok" =>
              /\ cur.error = validateScryptParams(cur.used)
              /\ ~cur.generated /\ ~cur.decoded /\ ~cur.started
              /\ cur.pc = "done" => cur.outcome = cur.error

\* a call without a salt argument and with invalid parameters has ended
C1_Witness ==
    /\ cur.pc = "done"
    /\ cur.salt = NoSalt
    /\ cur.outcome = "N must be a power of 2"

\* the powers of two from 2^10 to 2^24
PowersInRange == {BigOf(2^k) : k \in 10..24}

\* the value of a cost factor that fits the model checker's integers
SmallValue(a) == a[1] * Limb + a[2]

\* the parameter sets the specification accepts; 128 * N * r <= 2^30 is
\* written N * r <= 2^23
Acceptable(params) ==
    /\ params.N \in PowersInRange
    /\ 1 <= params.r /\ params.r <= 64
    /\ 1 <= params.p /\ params.p <= 64
    /\ 16 <= params.dkLen /\ params.dkLen <= 128
    /\ SmallValue(params.N) * params.r <= 2^23

\* C2: validateScryptParams succeeds exactly when N is a power of two
\* with 2^10 <= N <= 2^24, 1 <= r <= 64, 1 <= p <= 64, 16 <= dkLen <= 128
\* and 128*N*r <= 2^30, also for N <= 0 and for N >= 2^31 where the 32-bit
\* test N & (N-1) wraps; in every other case it throws.
C2_ValidateExact ==
    vres # "unchecked" => ((vres = "ok") <=> Acceptable(vp))

\* N = 2^32 + 2^10 passes the wrapped power-of-two test and is rejected by
\* the range check
C2_Witness ==
    /\ vp.N = <<2^16, 2^10>>
    /\ vres = "N must be between"

\* C3: for a HashResult r of hashPassword(pw, salt?, params),
\* verifyPassword(pw2, r.hash, r.salt, r.params) resolves (unless the
\* primitive fails), to true when pw2 = pw and to false when the hash
\* derived from pw2 differs from r.hash.
C3_VerifyRoundTrip ==
    ( /\ cur.op = "verifyPassword" /\ cur.pc = "done" /\ ~cur.fails
      /\ last.valid /\ last.op = "hashPassword"
      /\ cur.expected = last.hash
      /\ cur.salt = Given(last.rsalt)
      /\ cur.used = last.used )
    => /\ cur.outcome = "ok"
       /\ cur.password = last.password => cur.bool
       /\ cur.hash # last.hash => ~cur.bool
       /\ cur.bool <=> (cur.hash = cur.expected)

\* a password is verified against a result whose salt was generated
C3_Witness ==
    /\ cur.op = "verifyPassword" /\ cur.pc = "done" /\ cur.bool
    /\ last.valid /\ last.op = "hashPassword" /\ last.salt = NoSalt
    /\ cur.salt = Given(last.rsalt)

\* C4: two calls of hashPassword / hashPasswordSync (in any combination)
\* with the same password, the same caller-supplied salt string and the
\* same params return the same hash.
C4_Deterministic ==
    ( /\ HasHash(cur) /\ cur.op \in HashingOps
      /\ last.valid /\ last.op \in HashingOps
      /\ cur.password = last.password
      /\ cur.salt.given /\ cur.salt = last.salt
      /\ cur.used = last.used )
    => cur.hash = last.hash

\* C5: a salt string supplied to hashPassword or hashPasswordSync is the
\* one that is decoded and the one in HashResult.salt, and no salt is
\* generated for that call.
C5_SuppliedSaltVerbatim ==
    (cur.pc # "none" /\ cur.op \in HashingOps /\ cur.salt.given)
    => /\ ~cur.generated
       /\ cur.decoded => cur.saltHex = cur.salt.s
       /\ cur.hasResult => cur.rsalt = cur.salt.s

\* C6: a hashing call given a salt string that is not well-formed hex (odd
\* length or a character outside 0-9a-fA-F) ends with the encoding error
\* and does not invoke the primitive.
C6_MalformedSaltFails ==
    ( /\ cur.pc = "done" /\ cur.salt.given
      /\ ~WellFormedHex(cur.salt.s)
      /\ validateScryptParams(cur.used) = "ok" )
    => /\ ~cur.started
       /\ cur.outcome \notin {"ok", "DerivationFailure"} \cup ValidationErrors
       /\ Len(cur.salt.s) % 2 # 0 => cur.outcome = OddLengthError

\* C7: verifyPassword never resolves to a boolean when the parameters fail
\* validation, the salt is malformed hex or the derivation fails.
C7_VerifyRejects ==
    ( /\ cur.op = "verifyPassword" /\ cur.pc = "done"
      /\ \/ validateScryptParams(cur.used) # "ok"
         \/ ~WellFormedHex(cur.salt.s)
         \/ cur.fails )
    => cur.outcome # "ok"

\* C8: whatever operations and caller assignments to returned values have
\* happened, getScryptParams(level) returns the values of the fixed table
\* for all four levels, and a call with default parameters uses those of
\* the standard preset.
C8_TableFixed ==
    /\ \A level \in SecurityLevel : getScryptParams(level) = SCRYPT_PRESETS[level]
    /\ heap[DEFAULT_SCRYPT_PARAMS] = SCRYPT_PRESETS[DEFAULT_SECURITY_LEVEL]

SamePass(a, b) ==
    \/ a = b
    \/ {a, b} = {"serverHashPassword", "hashPassword"}

\* C9: serverHashPassword(h, serverSalt, params) returns the hash of
\* hashPassword(h, serverSalt, params), and a second run of
\* clientHashPassword or serverHashPassword with the same password, salt
\* and params returns the same hash as the first.
C9_DoubleHashReproducible ==
    ( /\ scenario = "protocol"
      /\ HasHash(cur) /\ last.valid
      /\ SamePass(cur.op, last.op)
      /\ cur.password = last.password
      /\ cur.salt = last.salt
      /\ cur.used = last.used )
    => cur.hash = last.hash

\* C10 as stated: hashing one password with the same params and two
\* distinct supplied salt strings yields two distinct hashes.  The strings
\* are taken non-empty and well-formed, so that a violation is one of the
\* statement itself and not a consequence of how the empty string (C5) or
\* a non-hex character (C6) is treated.
C10_DistinctSaltStrings ==
    ( /\ HasHash(cur) /\ cur.op \in HashingOps
      /\ last.valid /\ last.op \in HashingOps
      /\ cur.password = last.password
      /\ cur.used = last.used
      /\ Truthy(cur.salt) /\ Truthy(last.salt)
      /\ WellFormedHex(cur.salt.s) /\ WellFormedHex(last.salt.s)
      /\ cur.salt.s # last.salt.s )
    => cur.hash # last.hash

\* C10 amended: hashing one password with the same params and two
\* non-empty supplied salt strings that hexToBytes decodes to distinct
\* byte sequences yields two distinct hashes.
C10_DistinctSaltBytes ==
    ( /\ HasHash(cur) /\ cur.op \in HashingOps
      /\ last.valid /\ last.op \in HashingOps
      /\ cur.password = last.password
      /\ cur.used = last.used
      /\ Truthy(cur.salt) /\ Truthy(last.salt)
      /\ hexToBytes(cur.salt.s).bytes # hexToBytes(last.salt.s).bytes )
    => cur.hash # last.hash

\* two hashes of one password under salts that decode differently
C10_Witness ==
    /\ HasHash(cur) /\ cur.op = "hashPassword"
    /\ last.valid /\ last.op = "hashPassword"
    /\ cur.password = last.password
    /\ cur.used = last.used
    /\ cur.salt = Given(<<"a", "b">>)
    /\ last.salt = Given(<<"g", "g">>)
    /\ cur.hash # last.hash

LowerHex(str, n) ==
    /\ Len(str) = n
    /\ \A i \in 1..Len(str) : \E d \in 1..Len(HexDigits) : HexDigits[d] = str[i]

C12_LoginBundle ==
    out.op = "createLoginParams" =>
        /\ out.algorithm = "scrypt"
        /\ out.params = SCRYPT_PRESETS[IF out.level = "undefined"
                                       THEN DEFAULT_SECURITY_LEVEL
                                       ELSE out.level]
        /\ LowerHex(out.salt, 64)
        /\ LowerHex(out.formToken, 32)

\* C13: getScryptParams returns independent copies: no assignment to a
\* field of a value that getScryptParams returned, and no call of
\* getScryptParams, changes what getScryptParams returns for any level.
C13_CopiesIndependent ==
    [][\A level \in SecurityLevel :
          getScryptParams(level)' = getScryptParams(level)]_vars

\* the caller holds a copy and has assigned to two of its fields
C13_Witness ==
    /\ "g1" \in held
    /\ heap["g1"].N = BigOf(999)
    /\ heap["g1"].dkLen = 64
    /\ \A level \in SecurityLevel : getScryptParams(level) = SCRYPT_PRESETS[level]

\* C14: each of the four presets (development N=2^14, standard N=2^16, high
\* N=2^18, paranoid N=2^20, each with r=8, p=1, dkLen=32) is within the
\* range bounds and the 1 GiB ceiling and validateScryptParams accepts it;
\* the memory estimate 128*N*r of paranoid is exactly 2^30.
C14_PresetsValid ==
    /\ SCRYPT_PRESETS =
          [development |-> [N |-> BigOf(2^14), r |-> 8, p |-> 1, dkLen |-> 32],
           standard    |-> [N |-> BigOf(2^16), r |-> 8, p |-> 1, dkLen |-> 32],
           high        |-> [N |-> BigOf(2^18), r |-> 8, p |-> 1, dkLen |-> 32],
           paranoid    |-> [N |-> BigOf(2^20), r |-> 8, p |-> 1, dkLen |-> 32]]
    /\ (vres # "unchecked" /\ \E level \in SecurityLevel : vp = SCRYPT_PRESETS[level])
       => /\ vres = "ok"
          /\ Acceptable(vp)
          /\ vp = SCRYPT_PRESETS["paranoid"] => memoryRequired(vp) = BigOf(2^30)

\* the paranoid preset was validated
C14_Witness ==
    /\ vp = SCRYPT_PRESETS["paranoid"]
    /\ vres = "ok"
    /\ memoryRequired(vp) = maxMemory

\* the positive powers of two up to 2^46
PowersOfTwo == {BigOf(2^k) : k \in 0..30} \cup {<<2^k, 0>> : k \in 15..30}

\* the checks in the order of the specification, on the mathematical value
\* of each field
FirstFailingCheck(params) ==
    IF params.N \notin PowersOfTwo
    THEN "N must be a power of 2"
    ELSE IF params.N \notin PowersInRange
    THEN "N must be between"
    ELSE IF params.r < 1 \/ params.r > 64
    THEN "r must be between"
    ELSE IF params.p < 1 \/ params.p > 64
    THEN "p must be between"
    ELSE IF params.dkLen < 16 \/ params.dkLen > 128
    THEN "dkLen must be between"
    ELSE IF SmallValue(params.N) * params.r > 2^23
    THEN "Memory requirement exceeds limit"
    ELSE "ok"

\* C20: validateScryptParams applies its checks in the order N power of
\* two, N range, r range, p range, dkLen range, memory ceiling and reports
\* the first one that fails.
C20_FirstFailingCheck ==
    vres # "unchecked" => vres = FirstFailingCheck(vp)

\* C15: for every byte sequence b, the empty one included, bytesToHex(b) is
\* a string of 2 * Len(b) lowercase hex digits and nothing else, and
\* hexToBytes(bytesToHex(b)) returns b.
C15_HexRoundTrip ==
    /\ vres.stage # "none" => LowerHex(vres.hex, 2 * Len(vp))
    /\ vres.stage = "decoded" => (vres.ok /\ vres.bytes = vp)

\* a sequence with a byte below 16 and one above went through both
C15_Witness ==
    /\ vres.stage = "decoded"
    /\ vp = <<10, 171>>
    /\ vres.hex = <<"0", "a", "a", "b">>
    /\ vres.bytes = vp

\* C16: timingSafeEqual(a, b) is false when the lengths differ; for equal
\* lengths it is true exactly when a and b have the same character at
\* every position (upper and lower case are different characters), and
\* its loop runs once for every position, wherever the first mismatch is.
C16_TimingSafeEqual ==
    vres.done =>
        LET a == vp[1]
            b == vp[2]
        IN  /\ Len(a) # Len(b) => ~vres.value
            /\ Len(a) = Len(b) =>
                  /\ vres.value <=> (\A i \in 1..Len(a) : a[i] = b[i])
                  /\ vres.steps = Len(a)
            /\ a = b => vres.value

\* two strings that differ in case at the first position only
C16_Witness ==
    /\ vres.done
    /\ vp = << <<"a", "b", "b">>, <<"A", "b", "b">> >>
    /\ ~vres.value
    /\ vres.steps = 3

\* the e with N = 2^e, for a valid N
ExponentOf(N) == CHOOSE e \in 10..24 : N = BigOf(2^e)

\* ms is an integer nearest to 200 * N * r * p / 2^19 = 25 * r * p * 2^(e-16)
NearestToFormula(params, ms) ==
    LET e == ExponentOf(params.N)
        k == 25 * params.r * params.p
    IN  IF e >= 16 THEN ms = k * 2^(e - 16)
        ELSE LET d == ms * 2^(16 - e) - k
             IN  2 * d <= 2^(16 - e) /\ 0 - 2 * d <= 2^(16 - e)

PresetEstimates ==
    [development |-> 50, standard |-> 200, high |-> 800, paranoid |-> 3200]

\* C17: for every valid parameter set estimateHashingTime returns
\* 200*N*r*p / 2^19 rounded to the nearest integer; for the development,
\* standard, high and paranoid presets this is 50, 200, 800 and 3200.
C17_EstimateFormula ==
    \A k \in {"a", "b"} :
        (vres[k].done /\ Acceptable(vp[k])) =>
            /\ NearestToFormula(vp[k], vres[k].ms)
            /\ \A level \in SecurityLevel :
                  vp[k] = SCRYPT_PRESETS[level] => vres[k].ms = PresetEstimates[level]

\* N = 2^10, r = 2: with p = 1 the value 0.78125 is rounded up to 1, with
\* p = 3 the value 2.34375 is rounded down to 2
C17_Witness ==
    /\ vres.a.done /\ vres.b.done
    /\ vp.a = [N |-> BigOf(2^10), r |-> 2, p |-> 1, dkLen |-> 32]
    /\ vres.a.ms = 1
    /\ vp.b = [N |-> BigOf(2^10), r |-> 2, p |-> 3, dkLen |-> 32]
    /\ vres.b.ms = 2

\* y has a larger value than x in exactly one of N, r and p and the same
\* values in the other fields
LargerInOne(x, y) ==
    /\ x.dkLen = y.dkLen
    /\ \/ BigLt(x.N, y.N) /\ x.r = y.r /\ x.p = y.p
       \/ x.N = y.N /\ x.r < y.r /\ x.p = y.p
       \/ x.N = y.N /\ x.r = y.r /\ x.p < y.p

\* C18: for two valid parameter sets that differ in exactly one of N, r
\* and p, the one with the larger value does not get a smaller estimate.
C18_EstimateMonotone ==
    ( /\ vres.a.done /\ vres.b.done
      /\ Acceptable(vp.a) /\ Acceptable(vp.b)
      /\ LargerInOne(vp.a, vp.b) )
    => vres.a.ms <= vres.b.ms

\* two valid sets that differ in r only: 18.75 gives 19 and 50 gives 50
C18_Witness ==
    /\ vres.a.done /\ vres.b.done
    /\ vp.a = [N |-> BigOf(2^14), r |-> 3, p |-> 1, dkLen |-> 32]
    /\ vp.b = [N |-> BigOf(2^14), r |-> 8, p |-> 1, dkLen |-> 32]
    /\ vres.a.ms = 19
    /\ vres.b.ms = 50

\* the host says that the context is not secure: isSecureContext is false
\* where it is defined and true nowhere
ReportsNonSecure(host) ==
    /\ host.globalSecure # "true"
    /\ host.windowSecure # "true"
    /\ host.globalSecure = "false" \/ host.windowSecure = "false"

\* C19: each of the four flags of detectCryptoCapabilities follows the
\* host and is false when the host lacks the capability: secureContext is
\* false when the host reports a non-secure context, and
\* isSecureBrowserEnvironment is false in a browser that is not a secure
\* context.
C19_FlagsFollowHost ==
    /\ vres.stage # "none" =>
          /\ vres.caps.webCrypto = (vp.crypto /\ vp.subtle)
          /\ vres.caps.nodeEnvironment = (vp.process /\ vp.node)
          /\ vres.caps.browserEnvironment = vp.window
          /\ ReportsNonSecure(vp) => ~vres.caps.secureContext
    /\ vres.stage = "checked" =>
          ((vp.window /\ ReportsNonSecure(vp)) => ~vres.secure)

\* C21: every call of hashPasswordSync, hashPassword and verifyPassword runs
\* the clearing step (clearString) before it returns control, on every
\* exit path: success, validation failure, salt-decoding failure and
\* derivation failure.
C21_AlwaysCleared ==
    ( /\ cur.pc = "done"
      /\ cur.op \in {"hashPasswordSync", "hashPassword", "verifyPassword"} )
    => cur.cleared >= 1

\* C22: verifyPassword decides its result with timingSafeEqual, not with
\* ordinary equality, and the boolean it returns is
\* timingSafeEqual(computed hash, expectedHash).
C22_VerifyTimingSafe ==
    (cur.op = "verifyPassword" /\ cur.pc = "done" /\ cur.outcome = "ok")
    => /\ cur.bool = timingSafeEqual(cur.hash, cur.expected).value
       /\ cur.comparator = "timingSafeEqual"

\* C23: the HashResult of a hashing call carries the provenance of its
\* hash: result.params holds the values that were validated and passed to
\* the primitive and result.hash is the derivation of the password under
\* the bytes of result.salt and result.params, whatever tasks of the
\* caller ran while the derivation was in flight or after it returned.
\* The params object is taken to be one the caller built itself, so
\* that a violation is one of this statement and not of the shared
\* preset objects (C8).
C23_Provenance ==
    (cur.pc = "done" /\ cur.hasResult /\ cur.rparams = "c1")
    => /\ heap[cur.rparams] = cur.used
       /\ validateScryptParams(heap[cur.rparams]) = "ok"
       /\ cur.hash = bytesToHex(scrypt(cur.password,
                                       hexToBytes(cur.rsalt).bytes,
                                       heap[cur.rparams]))

\* C24: estimateHashingTime returns a number strictly greater than zero
\* for every parameter set that validateScryptParams accepts.
C24_EstimatePositive ==
    \A k \in {"a", "b"} :
        (vres[k].done /\ validateScryptParams(vp[k]) = "ok") => vres[k].ms > 0

\* C24 amended: for every parameter set that validateScryptParams accepts
\* the estimate is an integer that is never negative; it is zero exactly
\* for N = 2^10, r = 1, p = 1 (0.390625 is rounded down) and strictly
\* greater than zero for every other accepted set.
C24_EstimateZeroOnlyAtMinimum ==
    \A k \in {"a", "b"} :
        (vres[k].done /\ validateScryptParams(vp[k]) = "ok") =>
            /\ vres[k].ms \in Nat
            /\ vres[k].ms = 0 <=>
                  (vp[k].N = BigOf(2^10) /\ vp[k].r = 1 /\ vp[k].p = 1)

\* the smallest accepted set is estimated at 0 ms, its neighbour with
\* r = 2 at 1 ms
C24_Witness ==
    /\ vres.a.done /\ vres.b.done
    /\ vp.a = [N |-> BigOf(2^10), r |-> 1, p |-> 1, dkLen |-> 32]
    /\ validateScryptParams(vp.a) = "ok"
    /\ vres.a.ms = 0
    /\ vp.b = [N |-> BigOf(2^10), r |-> 2, p |-> 1, dkLen |-> 32]
    /\ validateScryptParams(vp.b) = "ok"
    /\ vres.b.ms > 0

\* C25: no parameter set with N = 2^24 is accepted, whatever r, p and
\* dkLen are: every accepted set has N * r <= 2^23, so the largest N
\* that is accepted is 2^23, and it is accepted only with r = 1.
C25_LargestAcceptedN ==
    /\ (vres # "unchecked" /\ vp.N = BigOf(2^24)) => vres # "ok"
    /\ vres = "ok" =>
          /\ SmallValue(vp.N) * vp.r <= 2^23
          /\ ~BigGt(vp.N, BigOf(2^23))
          /\ vp.N = BigOf(2^23) => vp.r = 1

\* N = 2^23 was validated with r = 1 and accepted
C25_Witness ==
    /\ vp.N = BigOf(2^23)
    /\ vp.r = 1
    /\ vres = "ok"

\* N = 2^24 was validated with in-range r, p and dkLen and refused by the
\* memory check
C25_RefusedAtMaxN ==
    /\ vp.N = BigOf(2^24)
    /\ vp.r = 1
    /\ vres = "Memory requirement exceeds limit"

====
